---- MODULE Spec2Model ----
(***************************************************************************)
(* RemoteDataset (river/datasets/base.py): the acquisition pipeline of a   *)
(* remote dataset.  An access (RemoteDataset.__iter__) checks the cache    *)
(* location with is_downloaded, calls download() when the check is falsy,  *)
(* checks again, and then yields the records of _iter().                   *)
(*                                                                         *)
(* The file system is modelled for the directory <data home>/<Type>/ only: *)
(* fs maps the names of the cache location (self.filename) and of the      *)
(* archive (basename of self.url) to what is found there.  File and path   *)
(* names are sequences of one-character strings, so that basename and      *)
(* suffix are computed the way os.path and pathlib compute them.           *)
(***************************************************************************)
EXTENDS Integers, Sequences, FiniteSets, TLC

VARIABLES
    url,        \* self.url
    size,       \* self.size, the declared size in bytes
    filename,   \* self.filename
    unpack,     \* self.unpack
    typeDir,    \* does the directory <data home>/<Type>/ exist
    fs,         \* name in <data home>/<Type>/ -> node found there
    pc,         \* per process: position inside __iter__ / download
    ret,        \* per process: value of the latest is_downloaded
    resp,       \* per process: the open HTTP response
    wfd,        \* per process: the archive file object open for writing
    events,     \* per process: what the current access has done so far
    nrec,       \* per process: records yielded by the current access
    prev,       \* per process: how the previous access ended
    extracted   \* per process: what the extraction of this access wrote

vars == <<url, size, filename, unpack, typeDir, fs, pc, ret, resp, wfd, events, nrec,
          prev, extracted>>
config == <<url, size, filename, unpack>>

(***************************************************************************)
(* Bounds.                                                                 *)
(***************************************************************************)
MaxSize == 1        \* declared sizes are 1..MaxSize
MaxFiles == 2       \* a directory of the model has at most MaxFiles entries
MaxRecords == 1     \* records _iter() yields at most
SubdirStSize == 1   \* st_size of a sub-directory entry

Procs == {1, 2}
MainProcs == {1}

(***************************************************************************)
(* Names and paths.                                                        *)
(***************************************************************************)
None == <<>>

ArchiveNames ==
    { <<"d", ".", "z", "i", "p">>,
      <<"d", ".", "t", "a", "r", ".", "g", "z">>,
      <<"d", ".", "t", "g", "z">>,
      <<"d", ".", "t", "a", "r">>,
      <<"d", ".", "g", "z", "i", "p">>,
      <<"d", ".", "b", "z", "2">>,
      <<"d", ".", "7", "z">>,
      <<"d", ".", "x", "t", "a", "r">>,
      <<"d">> }

Urls == { <<"h", "/">> \o n : n \in ArchiveNames }

FilenameArgs == { None, <<"c">> }

\* index of the last occurrence of character c in s, 0 when there is none
RFind(s, c) ==
    LET I == { i \in 1..Len(s) : s[i] = c }
    IN  IF I = {} THEN 0 ELSE CHOOSE i \in I : \A j \in I : j <= i

\* os.path.basename: what follows the last "/"
BaseName(u) == SubSeq(u, RFind(u, "/") + 1, Len(u))

\* pathlib.PurePath.suffix: from the last "." of the name, unless that dot
\* is the first or the last character
Suffix(name) ==
    LET i == RFind(name, ".")
    IN  IF 1 < i /\ i < Len(name) THEN SubSeq(name, i, Len(name)) ELSE <<>>

\* str.endswith
EndsWith(s, t) ==
    /\ Len(t) <= Len(s)
    /\ SubSeq(s, Len(s) - Len(t) + 1, Len(s)) = t

\* RemoteDataset.__init__: the filename defaults to the basename of the URL
InitFilename(u, fn) == IF fn = None THEN BaseName(u) ELSE fn

\* download() writing the archive to self.path
ArchiveName_path == filename

\* download(): archive_path = directory.joinpath(os.path.basename(self.url))
ArchiveName == BaseName(url)

\* the extraction download() selects for an archive name
ExtractKind(name) ==
    LET sfx == Suffix(name)
    IN  IF EndsWith(sfx, <<"z", "i", "p">>) THEN "zip"
        ELSE IF EndsWith(sfx, <<"g", "z">>) \/ EndsWith(sfx, <<"t", "a", "r">>)
             THEN IF EndsWith(sfx, <<"t", "a", "r">>) THEN "tar" ELSE "targz"
             ELSE "none"

(***************************************************************************)
(* File system nodes.                                                      *)
(***************************************************************************)
NoEntry == [t |-> "none", size |-> 0]
Entries ==
    {NoEntry} \cup [t : {"file"}, size : 0..MaxSize]
              \cup [t : {"dir"}, size : {SubdirStSize}]

NoEnts == [i \in 1..MaxFiles |-> NoEntry]
Absent == [kind |-> "absent", size |-> 0, ents |-> NoEnts]
File(n) == [kind |-> "file", size |-> n, ents |-> NoEnts]
Dir(e) == [kind |-> "dir", size |-> 0, ents |-> e]

FileSizes == 0..(MaxSize + 1)
Nodes ==
    {Absent} \cup { File(n) : n \in FileSizes }
             \cup { Dir(e) : e \in [1..MaxFiles -> Entries] }

RECURSIVE SumUpTo(_, _)
\* sum(f.stat().st_size for f in self.path.glob('**/*') if f.is_file())
SumUpTo(e, k) ==
    IF k = 0 THEN 0
    ELSE SumUpTo(e, k - 1) + (IF e[k].t = "file" THEN e[k].size ELSE 0)

SumFiles(e) == SumUpTo(e, MaxFiles)

(***************************************************************************)
(* is_downloaded: a Python value, either a bool or an int.                 *)
(***************************************************************************)
PyBool(b) == [t |-> "bool", b |-> b, n |-> 0]
PyInt(n) == [t |-> "int", b |-> FALSE, n |-> n]
NoRet == [t |-> "none", b |-> FALSE, n |-> 0]

\* is_downloaded with a value of its own (None) for a missing path
IsDownloaded_absentNone(node, s) ==
    IF node.kind # "absent"
    THEN IF node.kind = "file"
         THEN PyBool(node.size = s)
         ELSE PyInt(SumFiles(node.ents))
    ELSE NoRet

\* is_downloaded accepting a file that is at least as large as declared
IsDownloaded_atleast(node, s) ==
    IF node.kind # "absent"
    THEN IF node.kind = "file"
         THEN PyBool(node.size >= s)
         ELSE PyInt(SumFiles(node.ents))
    ELSE PyBool(FALSE)

IsDownloaded(node, s) ==
    IF node.kind # "absent"
    THEN IF node.kind = "file"
         THEN PyBool(node.size = s)
         ELSE PyInt(SumFiles(node.ents))
    ELSE PyBool(FALSE)

\* a test that takes only the bool True for true (is True)
Truthy_boolonly(v) == v.t = "bool" /\ v.b

\* truth value of a Python bool or int
Truthy(v) == IF v.t = "bool" THEN v.b ELSE v.n # 0

(***************************************************************************)
(* Extraction of an archive entry onto what is already on disk.            *)
(***************************************************************************)
\* extractall cannot write a file over a directory or a directory over a file
EntryConflict(old, new) ==
    /\ old.t # "none"
    /\ new.t # "none"
    /\ old.t # new.t

Conflict(node, tree) ==
    \/ node.kind = "dir" /\ tree.kind = "file"
    \/ node.kind = "file" /\ tree.kind = "dir"
    \/ /\ node.kind = "dir"
       /\ tree.kind = "dir"
       /\ \E i \in 1..MaxFiles : EntryConflict(node.ents[i], tree.ents[i])

\* extractall overwrites what the archive names and leaves the rest
Merge(node, tree) ==
    IF tree.kind = "absent" THEN node
    ELSE IF tree.kind = "file" THEN tree
    ELSE IF node.kind = "dir"
         THEN Dir([i \in 1..MaxFiles |->
                    IF tree.ents[i].t = "none" THEN node.ents[i] ELSE tree.ents[i]])
         ELSE tree

(***************************************************************************)
(* The file object download() writes the archive through: closed, or open  *)
(* on the file at the archive path, or open on a file that has been        *)
(* unlinked since; off is the number of bytes written through it.          *)
(***************************************************************************)
Closed == [st |-> "closed", off |-> 0]
Opened(st, off) == [st |-> st, off |-> off]

Max(a, b) == IF a >= b THEN a ELSE b

(***************************************************************************)
(* Initial state: a dataset object has been constructed; the cache         *)
(* location holds anything, no archive has been fetched yet.               *)
(***************************************************************************)
Init ==
    /\ url \in Urls
    /\ size \in 1..MaxSize
    /\ \E fn \in FilenameArgs : filename = InitFilename(url, fn)
    /\ unpack \in BOOLEAN
    /\ \E n \in Nodes :
          fs = [x \in {filename, BaseName(url)} |->
                   IF x = filename THEN n ELSE Absent]
    /\ typeDir \in BOOLEAN
    /\ (fs[filename].kind # "absent" => typeDir)
    /\ pc = [p \in Procs |-> "idle"]
    /\ ret = [p \in Procs |-> NoRet]
    /\ resp = [p \in Procs |-> "closed"]
    /\ wfd = [p \in Procs |-> Closed]
    /\ events = [p \in Procs |-> <<>>]
    /\ nrec = [p \in Procs |-> 0]
    /\ prev = [p \in Procs |-> "none"]
    /\ extracted = [p \in Procs |-> Absent]

(***************************************************************************)
(* Steps of an access.                                                     *)
(***************************************************************************)
Log(p, e) == events' = [events EXCEPT ![p] = Append(@, e)]
Log2(p, e1, e2) == events' = [events EXCEPT ![p] = Append(Append(@, e1), e2)]
LogSeq(p, es) == events' = [events EXCEPT ![p] = @ \o es]

\* marks in the trace that the archive p is about to read is open for
\* writing in another process
Reading(p) ==
    IF \E q \in Procs \ {p} : wfd[q].st = "path" THEN <<"partial">> ELSE <<>>

\* an exception leaves __iter__: the access is over, the caller has the error
Raise(p, kind) ==
    /\ pc' = [pc EXCEPT ![p] = "idle"]
    /\ prev' = [prev EXCEPT ![p] = kind]
    /\ ret' = [ret EXCEPT ![p] = NoRet]
    /\ resp' = [resp EXCEPT ![p] = "closed"]
    /\ wfd' = [wfd EXCEPT ![p] = Closed]
    /\ extracted' = [extracted EXCEPT ![p] = Absent]

\* iter(dataset): __iter__ is a generator function, so the call only makes
\* a generator object; none of its body has run
Iter(p) ==
    /\ pc[p] = "idle"
    /\ pc' = [pc EXCEPT ![p] = "created"]
    /\ events' = [events EXCEPT ![p] = <<>>]
    /\ nrec' = [nrec EXCEPT ![p] = 0]
    /\ UNCHANGED <<config, typeDir, fs, ret, resp, wfd, prev, extracted>>

\* the caller asks the new iterator for its first record: the body starts
Begin(p) ==
    /\ pc[p] = "created"
    /\ pc' = [pc EXCEPT ![p] = "check1"]
    /\ UNCHANGED <<config, typeDir, fs, ret, resp, wfd, prev, extracted, events, nrec>>

\* __iter__ remembering that the previous access failed and downloading
\* again without looking at the cache
Check1_cached(p) ==
    /\ pc[p] = "check1"
    /\ LET v == IsDownloaded(fs[filename], size)
       IN  /\ ret' = [ret EXCEPT ![p] = v]
           /\ IF Truthy(v) /\ prev[p] \in {"none", "served"}
              THEN /\ pc' = [pc EXCEPT ![p] = "serve"]
                   /\ Log(p, "verify_ok")
              ELSE /\ pc' = [pc EXCEPT ![p] = "mkdir"]
                   /\ Log2(p, "verify_no", "download")
    /\ UNCHANGED <<config, typeDir, fs, resp, wfd, nrec, prev, extracted>>

\* __iter__ calling download() whatever the first check returned
Check1_refetch(p) ==
    /\ pc[p] = "check1"
    /\ LET v == IsDownloaded(fs[filename], size)
       IN  /\ ret' = [ret EXCEPT ![p] = v]
           /\ pc' = [pc EXCEPT ![p] = "mkdir"]
           /\ Log2(p, IF Truthy(v) THEN "verify_ok" ELSE "verify_no", "download")
    /\ UNCHANGED <<config, typeDir, fs, resp, wfd, nrec, prev, extracted>>

\* if not self.is_downloaded: self.download(verbose=True)
Check1(p) ==
    /\ pc[p] = "check1"
    /\ LET v == IsDownloaded(fs[filename], size)
       IN  /\ ret' = [ret EXCEPT ![p] = v]
           /\ IF Truthy(v)
              THEN /\ pc' = [pc EXCEPT ![p] = "serve"]
                   /\ Log(p, "verify_ok")
              ELSE /\ pc' = [pc EXCEPT ![p] = "mkdir"]
                   /\ Log2(p, "verify_no", "download")
    /\ UNCHANGED <<config, typeDir, fs, resp, wfd, nrec, prev, extracted>>

\* download() entered under a lock: it waits while another process is
\* inside download()
Mkdir_locked(p) ==
    /\ pc[p] = "mkdir"
    /\ \A q \in Procs \ {p} :
          pc[q] \notin {"urlopen", "notify", "open", "copy", "unpack", "unlink"}
    /\ \/ /\ typeDir' = TRUE
          /\ pc' = [pc EXCEPT ![p] = "urlopen"]
          /\ Log(p, "mkdir")
          /\ UNCHANGED <<ret, resp, wfd, prev, extracted>>
       \/ /\ ~typeDir
          /\ UNCHANGED typeDir
          /\ Log(p, "raise")
          /\ Raise(p, "filesystem")
    /\ UNCHANGED <<config, fs, nrec>>

\* directory.mkdir(parents=True, exist_ok=True)
Mkdir(p) ==
    /\ pc[p] = "mkdir"
    /\ \/ /\ typeDir' = TRUE
          /\ pc' = [pc EXCEPT ![p] = "urlopen"]
          /\ Log(p, "mkdir")
          /\ UNCHANGED <<ret, resp, wfd, prev, extracted>>
       \/ /\ ~typeDir
          /\ UNCHANGED typeDir
          /\ Log(p, "raise")
          /\ Raise(p, "filesystem")
    /\ UNCHANGED <<config, fs, nrec>>

\* download() opening the archive file before it connects
Urlopen_touch(p) ==
    /\ pc[p] = "urlopen"
    /\ \/ /\ \E cl \in {"length", "nolength"} :
                /\ resp' = [resp EXCEPT ![p] = cl]
                /\ pc' = [pc EXCEPT ![p] = "notify"]
                /\ Log(p, "urlopen")
                /\ UNCHANGED <<ret, wfd, prev, extracted>>
          /\ UNCHANGED fs
       \/ /\ Log2(p, "urlopen", "raise")
          /\ Raise(p, "transport")
          /\ fs' = [fs EXCEPT ![ArchiveName] = File(0)]
    /\ UNCHANGED <<config, typeDir, nrec>>

\* with request.urlopen(self.url) as r
Urlopen(p) ==
    /\ pc[p] = "urlopen"
    /\ \/ \E cl \in {"length", "nolength"} :
             /\ resp' = [resp EXCEPT ![p] = cl]
             /\ pc' = [pc EXCEPT ![p] = "notify"]
             /\ Log(p, "urlopen")
             /\ UNCHANGED <<ret, wfd, prev, extracted>>
       \/ /\ Log2(p, "urlopen", "raise")
          /\ Raise(p, "transport")
    /\ UNCHANGED <<config, typeDir, fs, nrec>>

\* n_bytes = int(meta['Content-Length']): a Message returns None for a
\* header it does not have, and int(None) is a TypeError, not a KeyError
Notify(p) ==
    /\ pc[p] = "notify"
    /\ IF resp[p] = "length"
       THEN /\ pc' = [pc EXCEPT ![p] = "open"]
            /\ Log(p, "print")
            /\ UNCHANGED <<ret, resp, wfd, prev, extracted>>
       ELSE /\ Log(p, "raise")
            /\ Raise(p, "type")
    /\ UNCHANGED <<config, typeDir, fs, nrec>>

\* open(archive_path, 'wb')
Open(p) ==
    /\ pc[p] = "open"
    /\ IF fs[ArchiveName].kind = "dir"
       THEN /\ Log(p, "raise")
            /\ Raise(p, "filesystem")
            /\ UNCHANGED fs
       ELSE /\ fs' = [fs EXCEPT ![ArchiveName] = File(0)]
            /\ wfd' = [wfd EXCEPT ![p] = Opened("path", 0)]
            /\ pc' = [pc EXCEPT ![p] = "copy"]
            /\ Log(p, "open")
            /\ UNCHANGED <<ret, resp, prev, extracted>>
    /\ UNCHANGED <<config, typeDir, nrec>>

\* the file system after process p has written up to offset n through its
\* file object: the file at the archive path grows to n unless it is
\* longer already; bytes written to an unlinked file are not seen
Written(p, n) ==
    IF wfd[p].st = "path"
    THEN [fs EXCEPT ![ArchiveName] = File(Max(@.size, n))]
    ELSE fs

\* shutil.copyfileobj(r, f): one more buffer of the body is written
Write(p) ==
    /\ pc[p] = "copy"
    /\ \E n \in FileSizes :
          /\ n > wfd[p].off
          /\ fs' = Written(p, n)
          /\ wfd' = [wfd EXCEPT ![p] = Opened(@.st, n)]
    /\ UNCHANGED <<config, typeDir, pc, ret, resp, events, nrec, prev, extracted>>

\* download() returning after the copy whatever self.unpack is
Copy_skipunpack(p) ==
    /\ pc[p] = "copy"
    /\ \E n \in FileSizes :
          /\ n >= wfd[p].off
          /\ fs' = Written(p, n)
          /\ \/ /\ pc' = [pc EXCEPT ![p] = "check2"]
                /\ resp' = [resp EXCEPT ![p] = "closed"]
                /\ wfd' = [wfd EXCEPT ![p] = Closed]
                /\ Log(p, "write")
                /\ UNCHANGED <<ret, prev, extracted>>
             \/ /\ Log2(p, "write", "raise")
                /\ Raise(p, "transport")
    /\ UNCHANGED <<config, typeDir, nrec>>

\* download() unpacking whatever self.unpack is
Copy_alwaysunpack(p) ==
    /\ pc[p] = "copy"
    /\ \E n \in FileSizes :
          /\ n >= wfd[p].off
          /\ fs' = Written(p, n)
          /\ \/ /\ pc' = [pc EXCEPT ![p] = "unpack"]
                /\ resp' = [resp EXCEPT ![p] = "closed"]
                /\ wfd' = [wfd EXCEPT ![p] = Closed]
                /\ Log(p, "write")
                /\ UNCHANGED <<ret, prev, extracted>>
             \/ /\ Log2(p, "write", "raise")
                /\ Raise(p, "transport")
    /\ UNCHANGED <<config, typeDir, nrec>>

\* download() catching the error of an interrupted copy and going on
Copy_swallow(p) ==
    /\ pc[p] = "copy"
    /\ \E n \in FileSizes :
          /\ n >= wfd[p].off
          /\ fs' = Written(p, n)
          /\ pc' = [pc EXCEPT ![p] = IF unpack THEN "unpack" ELSE "check2"]
          /\ resp' = [resp EXCEPT ![p] = "closed"]
          /\ wfd' = [wfd EXCEPT ![p] = Closed]
          /\ \/ Log(p, "write")
             \/ Log2(p, "write", "raise")
          /\ UNCHANGED <<ret, prev, extracted>>
    /\ UNCHANGED <<config, typeDir, nrec>>

\* shutil.copyfileobj(r, f), then both with-blocks close; return when
\* self.unpack is false
Copy(p) ==
    /\ pc[p] = "copy"
    /\ \E n \in FileSizes :
          /\ n >= wfd[p].off
          /\ fs' = Written(p, n)
          /\ \/ /\ pc' = [pc EXCEPT ![p] = IF unpack THEN "unpack" ELSE "check2"]
                /\ resp' = [resp EXCEPT ![p] = "closed"]
                /\ wfd' = [wfd EXCEPT ![p] = Closed]
                /\ Log(p, "write")
                /\ UNCHANGED <<ret, prev, extracted>>
             \/ /\ Log2(p, "write", "raise")
                /\ Raise(p, "transport")
    /\ UNCHANGED <<config, typeDir, nrec>>

\* download() removing the archive before it rejects the extension
Unpack_cleanup(p) ==
    /\ pc[p] = "unpack"
    /\ LET kind == ExtractKind(ArchiveName)
       IN  IF kind = "none"
           THEN /\ Log(p, "raise")
                /\ Raise(p, "config")
                /\ fs' = [fs EXCEPT ![ArchiveName] = Absent]
           ELSE IF fs[ArchiveName].kind # "file" \/ fs[ArchiveName].size = 0
           THEN /\ LogSeq(p, Reading(p) \o <<kind, "raise">>)
                /\ Raise(p, IF fs[ArchiveName].kind = "absent"
                            THEN "notfound" ELSE "archive")
                /\ UNCHANGED fs
           ELSE \E tree \in Nodes :
                   IF filename # ArchiveName /\ Conflict(fs[filename], tree)
                   THEN /\ LogSeq(p, Reading(p) \o <<kind, "raise">>)
                        /\ Raise(p, "filesystem")
                        /\ UNCHANGED fs
                   ELSE /\ fs' = IF filename # ArchiveName
                                 THEN [fs EXCEPT ![filename] = Merge(@, tree)]
                                 ELSE fs
                        /\ \/ /\ pc' = [pc EXCEPT ![p] = "unlink"]
                              /\ LogSeq(p, Reading(p) \o <<kind>>)
                              /\ extracted' = [extracted EXCEPT ![p] =
                                     IF filename # ArchiveName THEN tree ELSE Absent]
                              /\ UNCHANGED <<ret, resp, wfd, prev>>
                           \/ /\ LogSeq(p, Reading(p) \o <<kind, "raise">>)
                              /\ Raise(p, "archive")
    /\ UNCHANGED <<config, typeDir, nrec>>

\* the extension dispatch of download() and the extractall it selects.
\* tree is what the archive holds under the name of the cache location; an
\* empty archive file is no archive; an extraction that fails may have
\* written some entries already.  Archives with an entry named like the
\* archive itself are left out.
Unpack(p) ==
    /\ pc[p] = "unpack"
    /\ LET kind == ExtractKind(ArchiveName)
       IN  IF kind = "none"
           THEN /\ Log(p, "raise")
                /\ Raise(p, "config")
                /\ UNCHANGED fs
           ELSE IF fs[ArchiveName].kind # "file" \/ fs[ArchiveName].size = 0
           THEN /\ LogSeq(p, Reading(p) \o <<kind, "raise">>)
                /\ Raise(p, IF fs[ArchiveName].kind = "absent"
                            THEN "notfound" ELSE "archive")
                /\ UNCHANGED fs
           ELSE \E tree \in Nodes :
                   IF filename # ArchiveName /\ Conflict(fs[filename], tree)
                   THEN /\ LogSeq(p, Reading(p) \o <<kind, "raise">>)
                        /\ Raise(p, "filesystem")
                        /\ UNCHANGED fs
                   ELSE /\ fs' = IF filename # ArchiveName
                                 THEN [fs EXCEPT ![filename] = Merge(@, tree)]
                                 ELSE fs
                        /\ \/ /\ pc' = [pc EXCEPT ![p] = "unlink"]
                              /\ LogSeq(p, Reading(p) \o <<kind>>)
                              /\ extracted' = [extracted EXCEPT ![p] =
                                     IF filename # ArchiveName THEN tree ELSE Absent]
                              /\ UNCHANGED <<ret, resp, wfd, prev>>
                           \/ /\ LogSeq(p, Reading(p) \o <<kind, "raise">>)
                              /\ Raise(p, "archive")
    /\ UNCHANGED <<config, typeDir, nrec>>

\* download() without the deletion of the archive
Unlink_keep(p) ==
    /\ pc[p] = "unlink"
    /\ pc' = [pc EXCEPT ![p] = "check2"]
    /\ Log(p, "unlink")
    /\ UNCHANGED <<config, typeDir, fs, nrec, ret, resp, wfd, prev, extracted>>

\* archive_path.unlink()
Unlink(p) ==
    /\ pc[p] = "unlink"
    /\ IF fs[ArchiveName].kind = "file"
       THEN /\ fs' = [fs EXCEPT ![ArchiveName] = Absent]
            /\ wfd' = [q \in Procs |->
                          IF wfd[q].st = "path"
                          THEN Opened("orphan", wfd[q].off) ELSE wfd[q]]
            /\ pc' = [pc EXCEPT ![p] = "check2"]
            /\ Log(p, "unlink")
            /\ UNCHANGED <<ret, resp, prev, extracted>>
       ELSE /\ Log(p, "raise")
            /\ Raise(p, IF fs[ArchiveName].kind = "absent"
                        THEN "notfound" ELSE "filesystem")
            /\ UNCHANGED fs
    /\ UNCHANGED <<config, typeDir, nrec>>

\* __iter__ downloading again when the second check fails
Check2_retry(p) ==
    /\ pc[p] = "check2"
    /\ LET v == IsDownloaded(fs[filename], size)
       IN  IF Truthy(v)
           THEN /\ ret' = [ret EXCEPT ![p] = v]
                /\ pc' = [pc EXCEPT ![p] = "serve"]
                /\ Log(p, "verify_ok")
                /\ extracted' = [extracted EXCEPT ![p] = Absent]
                /\ UNCHANGED <<resp, wfd, prev>>
           ELSE /\ pc' = [pc EXCEPT ![p] = "mkdir"]
                /\ Log2(p, "verify_no", "download")
                /\ UNCHANGED <<ret, resp, wfd, prev, extracted>>
    /\ UNCHANGED <<config, typeDir, fs, nrec>>

\* if not self.is_downloaded: raise RuntimeError(...)
Check2(p) ==
    /\ pc[p] = "check2"
    /\ LET v == IsDownloaded(fs[filename], size)
       IN  IF Truthy(v)
           THEN /\ ret' = [ret EXCEPT ![p] = v]
                /\ pc' = [pc EXCEPT ![p] = "serve"]
                /\ Log(p, "verify_ok")
                /\ extracted' = [extracted EXCEPT ![p] = Absent]
                /\ UNCHANGED <<resp, wfd, prev>>
           ELSE /\ Log2(p, "verify_no", "raise")
                /\ Raise(p, "verification")
    /\ UNCHANGED <<config, typeDir, fs, nrec>>

\* yield from self._iter(): one more record
Yield(p) ==
    /\ pc[p] = "serve"
    /\ nrec[p] < MaxRecords
    /\ nrec' = [nrec EXCEPT ![p] = @ + 1]
    /\ Log(p, "record")
    /\ UNCHANGED <<config, typeDir, fs, pc, ret, resp, wfd, prev, extracted>>

\* _iter() is exhausted
Finish(p) ==
    /\ pc[p] = "serve"
    /\ pc' = [pc EXCEPT ![p] = "idle"]
    /\ prev' = [prev EXCEPT ![p] = "served"]
    /\ ret' = [ret EXCEPT ![p] = NoRet]
    /\ UNCHANGED <<config, typeDir, fs, resp, wfd, events, nrec, extracted>>

Step(p) ==
    \/ Iter(p)
    \/ Begin(p)
    \/ Check1(p)
    \/ Mkdir(p)
    \/ Urlopen(p)
    \/ Notify(p)
    \/ Open(p)
    \/ Write(p)
    \/ Copy(p)
    \/ Unpack(p)
    \/ Unlink(p)
    \/ Check2(p)
    \/ Yield(p)
    \/ Finish(p)

Next == \E p \in MainProcs : Step(p)

Spec == Init /\ [][Next]_vars

(***************************************************************************)
(* Two processes, each with a dataset object of the same class, access     *)
(* the same absent cache location once.  Nothing in __iter__ or download() *)
(* takes a lock, so their steps interleave freely.  The archive holds a    *)
(* single file under the name of the cache location.                       *)
(***************************************************************************)
ConcUrl == <<"h", "/", "d", ".", "z", "i", "p">>

InitConc ==
    /\ url = ConcUrl
    /\ size \in 1..MaxSize
    /\ filename = InitFilename(url, <<"c">>)
    /\ unpack = TRUE
    /\ fs = [x \in {filename, BaseName(url)} |-> Absent]
    /\ typeDir \in BOOLEAN
    /\ pc = [p \in Procs |-> "idle"]
    /\ ret = [p \in Procs |-> NoRet]
    /\ resp = [p \in Procs |-> "closed"]
    /\ wfd = [p \in Procs |-> Closed]
    /\ events = [p \in Procs |-> <<>>]
    /\ nrec = [p \in Procs |-> 0]
    /\ prev = [p \in Procs |-> "none"]
    /\ extracted = [p \in Procs |-> Absent]

NextConc ==
    \E p \in Procs :
        \/ prev[p] = "none" /\ Iter(p)
        \/ Begin(p)
        \/ Check1(p)
        \/ Mkdir(p)
        \/ Urlopen(p)
        \/ Notify(p)
        \/ Open(p)
        \/ Write(p)
        \/ Copy(p)
        \/ Unpack(p) /\ fs'[filename].kind # "dir"
        \/ Unlink(p)
        \/ Check2(p)
        \/ Yield(p)
        \/ Finish(p)

SpecConc == InitConc /\ [][NextConc]_vars

TypeOK ==
    /\ url \in Urls
    /\ size \in 1..MaxSize
    /\ unpack \in BOOLEAN
    /\ typeDir \in BOOLEAN
    /\ \A x \in DOMAIN fs : fs[x] \in Nodes
    /\ \A p \in Procs : nrec[p] \in 0..MaxRecords

(***************************************************************************)
(* Properties.                                                             *)
(***************************************************************************)
Has(seq, e) == \E i \in 1..Len(seq) : seq[i] = e
Count(seq, e) == Cardinality({ i \in 1..Len(seq) : seq[i] = e })
First(seq, e) == CHOOSE i \in 1..Len(seq) : seq[i] = e /\ \A j \in 1..(i - 1) : seq[j] # e

\* the data model's definition of a complete cache location
Complete(node, s) ==
    \/ node.kind = "file" /\ node.size = s
    \/ node.kind = "dir" /\ SumFiles(node.ents) = s

ExtractEvents == {"zip", "targz", "tar"}
FetchEvents == {"download", "mkdir", "urlopen", "print", "open", "write"}
Errors ==
    {"transport", "type", "filesystem", "notfound", "config", "archive", "verification"}

\* C1: a record is produced only while the cache location is complete
\* (a file of the declared size, or a directory whose files sum to it).
C1_RecordsOnlyWhenComplete ==
    \A p \in Procs :
        (pc[p] = "serve" /\ nrec[p] > 0) => Complete(fs[filename], size)

\* C2: an access whose first check reports the cache complete makes no
\* fetch call and no unpack call.
C2_CompleteMeansNoFetch ==
    \A p \in Procs :
        (Len(events[p]) >= 1 /\ events[p][1] = "verify_ok")
            => \A i \in 1..Len(events[p]) :
                  events[p][i] \notin FetchEvents \cup ExtractEvents \cup {"unlink"}

\* a second access in a row served from the cache
C2_Witness ==
    \E p \in Procs :
        /\ prev[p] = "served"
        /\ pc[p] = "serve"
        /\ events[p] = <<"verify_ok", "record">>

\* C3: when the cache location does not match the declared size after the
\* fetch and unpack of an access, the access raises the verification
\* failure and produces no records.
C3_MismatchAfterFetchRaises ==
    \A p \in Procs :
        (Has(events[p], "download") /\ ~Complete(fs[filename], size))
            => (pc[p] # "serve" /\ ~Has(events[p], "record"))

\* C4: a directory is reported complete exactly when the sizes of its
\* regular files sum to the declared size.
C4_DirectoryCompleteness ==
    \A p \in Procs :
        (pc[p] \in {"mkdir", "serve"} /\ fs[filename].kind = "dir")
            => (Truthy(ret[p]) <=> SumFiles(fs[filename].ents) = size)

\* C5: a single file is reported complete exactly when its size is the
\* declared size, and a missing path is reported as not downloaded.
C5_FileCompleteness ==
    \A p \in Procs :
        /\ (pc[p] \in {"mkdir", "serve"} /\ fs[filename].kind = "file")
              => (Truthy(ret[p]) <=> fs[filename].size = size)
        /\ (pc[p] = "mkdir" /\ fs[filename].kind = "absent")
              => ret[p] = PyBool(FALSE)
        /\ (pc[p] = "serve" => fs[filename].kind # "absent")

\* the first check reported the cache location not downloaded, the fetch
\* left a file of the declared size there, and that one is reported complete
C5_Witness ==
    \E p \in Procs :
        /\ pc[p] = "serve"
        /\ events[p][1] = "verify_no"
        /\ fs[filename] = File(size)
        /\ Truthy(ret[p])

\* C6: an access calls download() at most once, exactly once when the
\* first check is falsy; nothing of the pipeline is repeated.
C6_OneAttemptPerAccess ==
    \A p \in Procs :
        /\ \A e \in FetchEvents \cup ExtractEvents \cup {"unlink", "raise"} :
              Count(events[p], e) <= 1
        /\ Count(events[p], "verify_ok") + Count(events[p], "verify_no") <= 2
        /\ (Len(events[p]) >= 1 /\ events[p][1] = "verify_no")
              => Count(events[p], "download") = 1
        /\ (Len(events[p]) >= 1 /\ events[p][1] = "verify_ok")
              => Count(events[p], "download") = 0
        /\ Len(events[p]) <= 11 + MaxRecords

\* an access after a failed one has fetched once and serves records
C6_Witness ==
    \E p \in Procs :
        /\ prev[p] = "verification"
        /\ pc[p] = "serve"
        /\ Count(events[p], "urlopen") = 1
        /\ Has(events[p], "record")

\* C7: with unpack enabled and a cache that is not complete, the first
\* record comes after, in this order: the first check, one fetch writing
\* the archive, one extraction, the deletion of the archive, the second
\* check.
C7_EndToEndOrder ==
    \A p \in Procs :
        /\ (unpack /\ nrec[p] >= 1 /\ events[p][1] = "verify_no")
              => /\ Len(events[p]) = 10 + nrec[p]
                 /\ SubSeq(events[p], 1, 7) =
                       <<"verify_no", "download", "mkdir", "urlopen", "print",
                         "open", "write">>
                 /\ events[p][8] \in ExtractEvents
                 /\ SubSeq(events[p], 9, 11) = <<"unlink", "verify_ok", "record">>
        /\ (pc[p] = "unpack" => fs[BaseName(url)].kind = "file")

C7_Witness ==
    \E p \in Procs :
        /\ unpack
        /\ prev[p] = "none"
        /\ nrec[p] = 1
        /\ events[p][1] = "verify_no"
        /\ events[p][8] = "zip"

\* C8: .zip is extracted as ZIP, .tar.gz and .tgz as gzip tar, .tar as
\* plain tar, and any other suffix raises the configuration error with no
\* extraction attempted.
C8_FormatDispatch ==
    \A p \in Procs :
        /\ Has(events[p], "zip") => EndsWith(BaseName(url), <<".", "z", "i", "p">>)
        /\ Has(events[p], "targz") =>
              \/ EndsWith(BaseName(url), <<".", "t", "a", "r", ".", "g", "z">>)
              \/ EndsWith(BaseName(url), <<".", "t", "g", "z">>)
        /\ Has(events[p], "tar") => EndsWith(BaseName(url), <<".", "t", "a", "r">>)

\* C9: after a successful unpack the archive is gone and what was
\* extracted is there; the archive exists until the extraction is over.
Holds(node, tree) ==
    \/ tree.kind = "absent"
    \/ tree.kind = "file" /\ node = tree
    \/ /\ tree.kind = "dir"
       /\ node.kind = "dir"
       /\ \A i \in 1..MaxFiles : tree.ents[i].t # "none" => node.ents[i] = tree.ents[i]

C9_ArchiveCleanup ==
    \A p \in Procs :
        /\ (pc[p] = "check2" /\ Has(events[p], "unlink"))
              => /\ fs[BaseName(url)].kind = "absent"
                 /\ filename # BaseName(url) => Holds(fs[filename], extracted[p])
        /\ pc[p] \in {"unpack", "unlink"} => fs[BaseName(url)].kind = "file"
        /\ Has(events[p], "unlink")
              => /\ \E e \in ExtractEvents : Has(events[p], e)
                 /\ \A e \in ExtractEvents :
                       Has(events[p], e) => First(events[p], e) < First(events[p], "unlink")

C9_Witness ==
    \E p \in Procs :
        /\ pc[p] = "check2"
        /\ Has(events[p], "unlink")
        /\ extracted[p].kind = "dir"
        /\ SumFiles(extracted[p].ents) > 0

\* C10: an error raised by any step of an access reaches the caller and the
\* access has produced no record.
C10_NoPartialSuccess ==
    \A p \in Procs :
        /\ Has(events[p], "raise")
              => /\ events[p][Len(events[p])] = "raise"
                 /\ pc[p] = "idle"
                 /\ prev[p] \in Errors
                 /\ nrec[p] = 0
                 /\ ~Has(events[p], "record")
        /\ nrec[p] > 0 => ~Has(events[p], "raise")

\* the connection broke during the copy
C10_Witness ==
    \E p \in Procs :
        /\ prev[p] = "transport"
        /\ pc[p] = "idle"
        /\ Has(events[p], "write")
        /\ nrec[p] = 0

\* C11: a response without a Content-Length header raises no error: the
\* access goes on to open the archive file and copy the body.
C11_MissingLengthProceeds ==
    [][\A p \in Procs :
          (pc[p] = "notify" /\ resp[p] = "nolength") => pc'[p] = "open"]_vars

\* the positions of an access outside download()
Quiet == {"idle", "created", "check1", "serve"}
Writing == {"open", "copy", "unpack", "unlink"}

\* C12: while the cache location is complete and no download is under way,
\* no step changes the cache location, the archive path or the directory,
\* and no download starts, so the cache location stays complete; the file
\* system is changed by the steps of download() only.
C12_ReadOnlyServing ==
    [][/\ ( /\ \A p \in Procs : pc[p] \in Quiet
            /\ \/ Complete(fs[filename], size)
               \/ Truthy(IsDownloaded(fs[filename], size)) )
          => ( /\ fs' = fs
               /\ typeDir' = typeDir
               /\ \A p \in Procs : pc'[p] \in Quiet )
       /\ fs' # fs => \E p \in Procs : pc[p] \in Writing
      ]_vars

\* a complete directory served records to an access that wrote nothing
C12_Witness ==
    \E p \in Procs :
        /\ pc[p] = "idle"
        /\ prev[p] = "served"
        /\ events[p] = <<"verify_ok", "record">>
        /\ fs[filename].kind = "dir"
        /\ SumFiles(fs[filename].ents) = size

C14_UnpackIffFetchedAndEligible ==
    \A p \in Procs :
        /\ ~unpack
              => /\ \A i \in 1..Len(events[p]) :
                       events[p][i] \notin ExtractEvents \cup {"unlink"}
                 /\ prev[p] \notin {"config", "archive"}
                 /\ pc[p] \notin {"unpack", "unlink"}
                 /\ Has(events[p], "write") => fs[BaseName(url)].kind = "file"
        /\ \A i \in 1..Len(events[p]) :
              events[p][i] \in ExtractEvents
                  => (unpack /\ i > 1 /\ events[p][i - 1] = "write")
        /\ (unpack /\ Has(events[p], "write"))
              => LET i == First(events[p], "write")
                 IN  IF Len(events[p]) = i
                     THEN pc[p] = "unpack"
                     ELSE events[p][i + 1] \in ExtractEvents \cup {"raise"}

\* unpack disabled, an extension download() cannot unpack: the file was
\* fetched, is still there, and records are served from it
C14_Witness ==
    \E p \in Procs :
        /\ ~unpack
        /\ ExtractKind(BaseName(url)) = "none"
        /\ Has(events[p], "write")
        /\ pc[p] = "serve"
        /\ fs[BaseName(url)] = File(size)

\* C15: obtaining an iterator runs nothing and touches nothing; the first
\* request for a record starts at the first check with an empty trace; and
\* the first check sends the access to download() exactly when the cache
\* location is not downloaded at that moment, however earlier accesses ended.
C15_LazyAndRestartable ==
    [][\A p \in Procs :
          /\ (pc[p] = "idle" /\ pc'[p] # "idle")
                => /\ pc'[p] = "created"
                   /\ events'[p] = <<>>
                   /\ nrec'[p] = 0
                   /\ fs' = fs /\ typeDir' = typeDir
          /\ (pc[p] = "created" /\ pc'[p] # "created")
                => /\ pc'[p] = "check1"
                   /\ events'[p] = <<>>
                   /\ fs' = fs /\ typeDir' = typeDir
          /\ (pc[p] = "check1" /\ pc'[p] # "check1")
                => /\ pc'[p] \in {"serve", "mkdir"}
                   /\ pc'[p] = "serve" <=> Truthy(IsDownloaded(fs[filename], size))
                   /\ events'[p][1] =
                         IF Truthy(IsDownloaded(fs[filename], size))
                         THEN "verify_ok" ELSE "verify_no"
                   /\ fs' = fs
      ]_vars

\* the previous access failed in the extraction, which had already written
\* enough: the new iteration checks again and serves without a fetch
C15_Witness ==
    \E p \in Procs :
        /\ prev[p] = "archive"
        /\ pc[p] = "serve"
        /\ events[p] = <<"verify_ok">>

\* C16: nothing makes a process wait for another: in every state each
\* process can take its next step, wherever the other one is; and an
\* extraction or deletion that finds no archive has lost it to the other
\* process's deletion.
C16_NoMutualExclusion ==
    \A p \in Procs :
        /\ ENABLED Step(p)
        /\ prev[p] = "notfound"
              => \E q \in Procs \ {p} : Has(events[q], "unlink")

\* one process has extracted the archive while the other was still writing
\* it and has deleted it; the other then found no archive
C16_Witness ==
    \E p \in Procs : \E q \in Procs \ {p} :
        /\ Has(events[p], "partial")
        /\ Has(events[p], "unlink")
        /\ prev[q] = "notfound"

\* the access of p is over and its copy had completed: the event after
\* "write" is not the error of an interrupted transfer
FetchCompleted(p) ==
    /\ pc[p] = "idle"
    /\ Has(events[p], "write")
    /\ events[p][First(events[p], "write") + 1] # "raise"

C18_StateAfterConfigError ==
    \A p \in Procs :
        /\ (pc[p] = "idle" /\ prev[p] = "config")
              => /\ unpack
                 /\ events[p] = <<"verify_no", "download", "mkdir", "urlopen",
                                  "print", "open", "write", "raise">>
                 /\ fs[BaseName(url)].kind = "file"
        /\ (prev[p] = "config" /\ pc[p] \in {"created", "check1"})
              => fs[BaseName(url)].kind = "file"
        /\ ( /\ prev[p] = "config"
             /\ pc[p] \notin {"idle", "created", "check1"}
             /\ events[p][1] = "verify_no" )
              => /\ Has(events[p], "download")
                 /\ Has(events[p], "write") => fs[BaseName(url)].kind = "file"

\* after the access that raised the configuration error, the next one has
\* opened the archive path again for a new fetch
C18_Witness ==
    \E p \in Procs :
        /\ prev[p] = "config"
        /\ pc[p] = "copy"
        /\ events[p] = <<"verify_no", "download", "mkdir", "urlopen", "print", "open">>

\* C19: when urlopen fails, the access ends there with the transport error:
\* the directory exists, the file system is as it was, and the trace of the
\* access holds no open, write, extraction or deletion.
C19_StateAfterTransportError ==
    [][\A p \in Procs :
          (pc[p] = "urlopen" /\ pc'[p] = "idle")
              => /\ prev'[p] = "transport"
                 /\ typeDir /\ typeDir'
                 /\ fs' = fs
                 /\ events[p] = <<"verify_no", "download", "mkdir">>
                 /\ events'[p] =
                       <<"verify_no", "download", "mkdir", "urlopen", "raise">>
                 /\ nrec'[p] = 0
      ]_vars

\* the connection failed: nothing at the cache location, no archive, the
\* directory is there
C19_Witness ==
    \E p \in Procs :
        /\ pc[p] = "idle"
        /\ prev[p] = "transport"
        /\ events[p] = <<"verify_no", "download", "mkdir", "urlopen", "raise">>
        /\ typeDir
        /\ fs[filename].kind = "absent"
        /\ fs[BaseName(url)].kind = "absent"

====
